---- MODULE Spec2Model ----
(***************************************************************************)
(* The credit / quota ledger of snap2style-backend/main.py: the users,     *)
(* guests, email_tokens and generation_logs tables, the account-creating   *)
(* and verifying routes, and POST /style-image.                            *)
(*                                                                         *)
(* Time is counted in ticks of 1/TicksPerSec second, so that the           *)
(* truncation int(...) of a fractional number of seconds is visible.       *)
(* POST /style-image is split at its database accesses: with several       *)
(* worker processes on one SQLite file the reads and writes of two         *)
(* requests interleave.  SeqSpec runs one request at a time.               *)
(***************************************************************************)
EXTENDS Integers, Sequences, FiniteSets, TLC

\* ---- program constants
DAILY_FREE_LIMIT == 2
GuestInitialCredits == 2
VerifyBonus == 2
FallbackWait == 3600
NoUser == 0
NoTs == -1
NoGuest == ""

\* ---- bounds of the model
TicksPerSec == 2
MaxSlack == 1
MaxLog == 3
MaxTokens == 2

Hours24 == 24 * 3600 * TicksPerSec

Emails == {"a@x"}
GuestIds == {"g1"}
\* Request slots: the requests in flight.
Procs == {1, 2}
SeqProcs == {1}
Providers == {"mock", "stability", "other"}
\* The clock moves by one tick or by one tick less than 24 hours, and stays within
\* MaxSlack ticks after the start and around the end of the first 24 hours.
ClockSteps == {1, Hours24 - 1}
ClockValues == (0..MaxSlack) \cup ((Hours24 - 1)..(Hours24 + MaxSlack))
\* With requests interleaved the clock only jumps past the 24 hours.
ConcClockSteps == {Hours24 + 1}
ConcClockValues == {0, Hours24 + 1}

VARIABLES now, AI_PROVIDER, users, email_tokens, guests, generation_logs, req, resp,
          \* history, read by no operation: the bonus credits added to each user row
          bonus_granted

vars == <<now, AI_PROVIDER, users, email_tokens, guests, generation_logs, req, resp,
          bonus_granted>>

\* ---- helpers over sequences
RemoveAt(s, i) == SubSeq(s, 1, i - 1) \o SubSeq(s, i + 1, Len(s))

Max(a, b) == IF a >= b THEN a ELSE b

\* ---- rows
NewUser(email, verified, credits, claimed) ==
    [email |-> email, is_verified |-> verified, free_credits |-> credits,
     verify_bonus_claimed |-> claimed]

GenerationLog(user_id, guest_id) ==
    [user_id |-> user_id, guest_id |-> guest_id, created_at |-> now]

\* An email_tokens row.  expires_at is left out: an expired token is refused with
\* 400 and changes nothing, the longest clock of the model is shorter than the 3
\* days of a link token, and an unverified user can always draw a new OTP, so
\* expiry removes steps and never adds a ledger state.
EmailToken(user_id, purpose) == [user_id |-> user_id, purpose |-> purpose]

UserIds == 1..Len(users)
UserByEmail(email) == {u \in UserIds : users[u].email = email}

IdleReq == [pc |-> "idle", kind |-> "none", uid |-> NoUser, gid |-> NoGuest,
            read |-> 0, used24 |-> 0, now1 |-> 0, ts |-> NoTs, now2 |-> 0,
            bucket |-> "none"]
NoResp == [status |-> 0, kind |-> "none", uid |-> NoUser, gid |-> NoGuest,
           bucket |-> "none", logged |-> 0, used_last_24h |-> 0, daily_limit |-> 0,
           retry_after_seconds |-> 0, cta |-> "", predictionId |-> "",
           now1 |-> 0, ts |-> NoTs, now2 |-> 0, now3 |-> 0,
           verified |-> FALSE, free_credits |-> 0, guest_credits |-> 0,
           \* history: this reply follows at once a daily-limit denial of the user
           after_denial |-> FALSE]

Init ==
    /\ now = 0
    /\ AI_PROVIDER \in Providers
    /\ users = <<>>
    /\ bonus_granted = <<>>
    /\ email_tokens = <<>>
    /\ guests = [g \in {} |-> 0]
    /\ generation_logs = <<>>
    /\ req = [p \in Procs |-> IdleReq]
    /\ resp = NoResp

\* resp is the reply sent by the step just taken, for the replies of
\* /style-image, /credits, /auth/verify and /auth/verify-otp; NoResp after any
\* other step.
Silent == resp' = NoResp

\* ---- the clock
Tick(steps, values) ==
    /\ \E d \in steps :
          /\ now + d \in values
          /\ now' = now + d
    /\ Silent
    /\ UNCHANGED <<AI_PROVIDER, users, email_tokens, guests,
                   generation_logs, req, bonus_granted>>

Quiet(conc) == conc \/ \A p \in Procs : req[p].pc = "idle"

\* ---- GUEST & LIMIT HELPERS

\* get_or_create_guest: the cookie's guest row, created with 2 credits when the
\* table has none; without a cookie a fresh id (uuid4) is drawn first.
FreshGuestIds == GuestIds \ DOMAIN guests

get_or_create_guest(gid) ==
    IF gid \in DOMAIN guests THEN guests
    ELSE [g \in DOMAIN guests \cup {gid} |->
             IF g = gid THEN GuestInitialCredits ELSE guests[g]]

\* count_last_24h: rows with created_at >= utcnow() - 24h; a filter is applied
\* only for an argument that is truthy.
count_last_24h_strict(user_id, guest_id) ==
    LET since == now - Hours24
    IN  Cardinality({i \in 1..Len(generation_logs) :
            /\ generation_logs[i].created_at > since
            /\ (user_id # NoUser => generation_logs[i].user_id = user_id)
            /\ (guest_id # NoGuest => generation_logs[i].guest_id = guest_id)})

count_last_24h_with_passed(user_id, guest_id) ==
    LET since == now - Hours24
    IN  Cardinality({i \in 1..Len(generation_logs) :
            /\ generation_logs[i].created_at >= since
            /\ (user_id # NoUser => generation_logs[i].user_id = user_id)
            /\ (guest_id # NoGuest => generation_logs[i].guest_id = guest_id)})
        + Cardinality({p \in DOMAIN req :
            /\ req[p].bucket = "daily_quota"
            /\ user_id # NoUser
            /\ req[p].uid = user_id})

count_last_24h(user_id, guest_id) ==
    LET since == now - Hours24
    IN  Cardinality({i \in 1..Len(generation_logs) :
            /\ generation_logs[i].created_at >= since
            /\ (user_id # NoUser => generation_logs[i].user_id = user_id)
            /\ (guest_id # NoGuest => generation_logs[i].guest_id = guest_id)})

\* next_available_ts: the user's rows of the last 24h, newest first; None when
\* fewer than DAILY_FREE_LIMIT, else created_at of row DAILY_FREE_LIMIT-1 + 24h.
KthNewestIsNewest(idx, k) ==
    CHOOSE t \in {generation_logs[i].created_at : i \in idx} :
        \A i \in idx : generation_logs[i].created_at <= t

KthNewest(idx, k) ==
    CHOOSE t \in {generation_logs[i].created_at : i \in idx} :
        /\ Cardinality({i \in idx : generation_logs[i].created_at > t}) < k
        /\ Cardinality({i \in idx : generation_logs[i].created_at >= t}) >= k

next_available_ts_same_day(user_id) ==
    LET since == now - Hours24
        logs == {i \in 1..Len(generation_logs) :
                    /\ generation_logs[i].user_id = user_id
                    /\ generation_logs[i].created_at >= since}
    IN  IF Cardinality(logs) < DAILY_FREE_LIMIT THEN NoTs
        ELSE KthNewest(logs, DAILY_FREE_LIMIT)

next_available_ts(user_id) ==
    LET since == now - Hours24
        logs == {i \in 1..Len(generation_logs) :
                    /\ generation_logs[i].user_id = user_id
                    /\ generation_logs[i].created_at >= since}
    IN  IF Cardinality(logs) < DAILY_FREE_LIMIT THEN NoTs
        ELSE KthNewest(logs, DAILY_FREE_LIMIT) + Hours24

\* log_generation_db: one row, created_at = utcnow() at the insert.
log_generation_db_anonymous(user_id, guest_id) ==
    Append(generation_logs, GenerationLog(NoUser, NoGuest))

log_generation_db(user_id, guest_id) ==
    Append(generation_logs, GenerationLog(user_id, guest_id))

\* ---- AUTH ROUTES

\* The bonus block shared by verify_email and verify_otp:
\*   u.is_verified = True
\*   if not u.verify_bonus_claimed: u.free_credits += 2; u.verify_bonus_claimed = True
BonusAlwaysDue(u) == TRUE
BonusDue(u) == ~users[u].verify_bonus_claimed

RECURSIVE GuestCreditsOf(_)
GuestCreditsOf(S) ==
    IF S = {} THEN 0
    ELSE LET g == CHOOSE x \in S : TRUE
         IN  guests[g] + GuestCreditsOf(S \ {g})

MarkVerifiedKeepingGuestCredits(u) ==
    [users[u] EXCEPT !.is_verified = TRUE,
                     !.free_credits = IF BonusDue(u)
                                      THEN @ + VerifyBonus + GuestCreditsOf(DOMAIN guests)
                                      ELSE @,
                     !.verify_bonus_claimed = TRUE]

MarkVerified(u) ==
    [users[u] EXCEPT !.is_verified = TRUE,
                     !.free_credits = IF BonusDue(u) THEN @ + VerifyBonus ELSE @,
                     !.verify_bonus_claimed = TRUE]

\* History: n bonus credits were added to user u; a row was created with n.
Granted(u, n) == bonus_granted' = [bonus_granted EXCEPT ![u] = @ + n]

Created(n) == bonus_granted' = Append(bonus_granted, n)

\* generate_otp_for_user: the user's old OTP rows are deleted, one new row added.
RECURSIVE DropOtp(_, _)
DropOtp(toks, u) ==
    IF toks = <<>> THEN <<>>
    ELSE (IF Head(toks).user_id = u /\ Head(toks).purpose = "otp"
          THEN <<>> ELSE <<Head(toks)>>) \o DropOtp(Tail(toks), u)

generate_otp_for_user(toks, u) == Append(DropOtp(toks, u), EmailToken(u, "otp"))

\* POST /auth/register (409 when the email is taken)
register(email, conc) ==
    /\ Quiet(conc)
    /\ UserByEmail(email) = {}
    /\ Len(email_tokens) + 2 <= MaxTokens
    /\ LET u == Len(users) + 1
       IN  /\ users' = Append(users, NewUser(email, FALSE, 0, FALSE))
           /\ Created(0)
           /\ email_tokens' = generate_otp_for_user(
                  Append(email_tokens, EmailToken(u, "verify")), u)
    /\ Silent
    /\ UNCHANGED <<now, AI_PROVIDER, guests, generation_logs, req>>

\* GET /auth/verify (400 for an unknown or expired token)
verify_email(i, conc) ==
    /\ Quiet(conc)
    /\ i \in 1..Len(email_tokens)
    /\ email_tokens[i].purpose = "verify"
    /\ LET u == email_tokens[i].user_id
       IN  /\ users' = [users EXCEPT ![u] = MarkVerified(u)]
           /\ Granted(u, IF BonusDue(u) THEN VerifyBonus ELSE 0)
    /\ email_tokens' = RemoveAt(email_tokens, i)
    /\ resp' = [NoResp EXCEPT !.status = 302, !.kind = "verify_email",
                              !.uid = email_tokens[i].user_id]
    /\ UNCHANGED <<now, AI_PROVIDER, guests, generation_logs, req>>

\* POST /auth/request-otp (404 unknown email; "Already verified" without a new code)
request_otp(email, conc) ==
    /\ Quiet(conc)
    /\ \E u \in UserByEmail(email) :
          /\ ~users[u].is_verified
          /\ Len(DropOtp(email_tokens, u)) + 1 <= MaxTokens
          /\ email_tokens' = generate_otp_for_user(email_tokens, u)
    /\ Silent
    /\ UNCHANGED <<now, AI_PROVIDER, users, guests, generation_logs, req, bonus_granted>>

\* POST /auth/verify-otp with the code that was mailed: the first unexpired OTP
\* row of the user must carry it (400 otherwise).
FirstOtp(u) ==
    LET live == {i \in 1..Len(email_tokens) :
                    /\ email_tokens[i].user_id = u
                    /\ email_tokens[i].purpose = "otp"}
    IN  IF live = {} THEN 0 ELSE CHOOSE i \in live : \A j \in live : i <= j

verify_otp(email, conc) ==
    /\ Quiet(conc)
    /\ \E u \in UserByEmail(email) :
          /\ FirstOtp(u) # 0
          /\ users' = [users EXCEPT ![u] = MarkVerified(u)]
          /\ Granted(u, IF BonusDue(u) THEN VerifyBonus ELSE 0)
          /\ email_tokens' = RemoveAt(email_tokens, FirstOtp(u))
          /\ resp' = [NoResp EXCEPT !.status = 200, !.kind = "verify_otp", !.uid = u]
    /\ UNCHANGED <<now, AI_PROVIDER, guests, generation_logs, req>>

\* POST /auth/resend (401 without a session; "Already verified" without a token)
resend_verify(u, conc) ==
    /\ Quiet(conc)
    /\ u \in UserIds
    /\ ~users[u].is_verified
    /\ Len(email_tokens) + 1 <= MaxTokens
    /\ email_tokens' = Append(email_tokens, EmailToken(u, "verify"))
    /\ Silent
    /\ UNCHANGED <<now, AI_PROVIDER, users, guests, generation_logs, req, bonus_granted>>

\* GET /auth/google/callback, after the code exchange: userinfo gave email and
\* email_verified.
GoogleNewUserWithCredits(email, email_verified) ==
    NewUser(email, email_verified, VerifyBonus, email_verified)
GoogleNewUser(email, email_verified) ==
    NewUser(email, email_verified, IF email_verified THEN VerifyBonus ELSE 0, email_verified)

GoogleExisting(u, email_verified) ==
    [users[u] EXCEPT
        !.is_verified = @ \/ email_verified,
        !.free_credits = IF email_verified /\ BonusDue(u) THEN @ + VerifyBonus ELSE @,
        !.verify_bonus_claimed = @ \/ email_verified]

google_callback(email, email_verified, conc) ==
    /\ Quiet(conc)
    /\ IF UserByEmail(email) = {}
       THEN /\ users' = Append(users, GoogleNewUser(email, email_verified))
            /\ Created(IF email_verified THEN VerifyBonus ELSE 0)
       ELSE \E u \in UserByEmail(email) :
               /\ users' = [users EXCEPT ![u] = GoogleExisting(u, email_verified)]
               /\ Granted(u, IF email_verified /\ BonusDue(u) THEN VerifyBonus ELSE 0)
    /\ Silent
    /\ UNCHANGED <<now, AI_PROVIDER, email_tokens, guests, generation_logs, req>>

\* POST /auth/google-idtoken: a missing user is created verified with 2 credits;
\* verify_bonus_claimed is not passed and keeps the column default False.
IdTokenNewUser(email) == NewUser(email, TRUE, VerifyBonus, FALSE)

google_idtoken_login(email, conc) ==
    /\ Quiet(conc)
    /\ UserByEmail(email) = {}
    /\ users' = Append(users, IdTokenNewUser(email))
    /\ Created(VerifyBonus)
    /\ Silent
    /\ UNCHANGED <<now, AI_PROVIDER, email_tokens, guests, generation_logs, req>>

\* ---- POST /style-image

\* Room in the model for the usage event of one more request let through: a
\* request passes its entitlement check only while the table, with the events of
\* the requests already let through, stays within MaxLog rows.
Passed == {p \in Procs : req[p].pc \in {"debit_user", "guest_debit", "generate"}}
LogRoom == Len(generation_logs) + Cardinality(Passed) < MaxLog

Reply(p, r) ==
    /\ resp' = r
    /\ req' = [req EXCEPT ![p] = IdleReq]

\* An upload that is not an image, or is larger than 8 MB, is answered 400 before
\* any accounting: the requests below carry an acceptable image.

\* Session cookie of user u: u = db.get(User, user.id); the branch on
\* u.is_verified and u.free_credits > 0.
PrepaidOpenWithinQuota(u) ==
    /\ users[u].is_verified
    /\ users[u].free_credits > 0
    /\ count_last_24h(u, NoGuest) < DAILY_FREE_LIMIT
PrepaidOpen(u) == users[u].is_verified /\ users[u].free_credits > 0

StyleUserRead(p, u, conc) ==
    /\ Quiet(conc)
    /\ req[p].pc = "idle"
    /\ u \in UserIds
    /\ PrepaidOpen(u) => LogRoom
    /\ req' = [req EXCEPT ![p] =
                 [IdleReq EXCEPT !.pc = IF PrepaidOpen(u) THEN "debit_user" ELSE "count",
                                 !.kind = "user", !.uid = u,
                                 !.read = users[u].free_credits]]
    /\ Silent
    /\ UNCHANGED <<now, AI_PROVIDER, users, email_tokens, guests,
                   generation_logs, bonus_granted>>

\* u.free_credits -= 1; db.commit(): the UPDATE writes the value read, minus one.
DebitedUserInPlace(u, read) == [users[u] EXCEPT !.free_credits = @ - 1]
DebitedUserTwice(u, read) == [users[u] EXCEPT !.free_credits = read - 2]
DebitedUser(u, read) == [users[u] EXCEPT !.free_credits = read - 1]

StyleUserDebit(p) ==
    /\ req[p].pc = "debit_user"
    /\ users' = [users EXCEPT ![req[p].uid] = DebitedUser(req[p].uid, req[p].read)]
    /\ req' = [req EXCEPT ![p].pc = "generate", ![p].bucket = "prepaid"]
    /\ Silent
    /\ UNCHANGED <<now, AI_PROVIDER, email_tokens, guests, generation_logs,
                   bonus_granted>>

\* used24 = count_last_24h(user_id=u.id); if used24 >= DAILY_FREE_LIMIT: deny
OverLimitStrict(used24) == used24 > DAILY_FREE_LIMIT
OverLimit(used24) == used24 >= DAILY_FREE_LIMIT

StyleCount(p) ==
    /\ req[p].pc = "count"
    /\ LET used24 == count_last_24h(req[p].uid, NoGuest)
       IN  /\ ~OverLimit(used24) => LogRoom
           /\ req' = [req EXCEPT ![p].used24 = used24, ![p].now1 = now,
                              ![p].pc = IF OverLimit(used24) THEN "next_avail" ELSE "generate",
                              ![p].bucket = IF OverLimit(used24) THEN "none" ELSE "daily_quota"]
    /\ Silent
    /\ UNCHANGED <<now, AI_PROVIDER, users, email_tokens, guests,
                   generation_logs, bonus_granted>>

\* ts = next_available_ts(u.id)
StyleNextAvail(p) ==
    /\ req[p].pc = "next_avail"
    /\ req' = [req EXCEPT ![p].ts = next_available_ts(req[p].uid),
                          ![p].now2 = now, ![p].pc = "deny"]
    /\ Silent
    /\ UNCHANGED <<now, AI_PROVIDER, users, email_tokens, guests,
                   generation_logs, bonus_granted>>

\* wait = int(max(0, ts - utcnow().timestamp())) if ts else 3600
RetryAfterRoundedUp(ts) ==
    IF ts = NoTs THEN FallbackWait
    ELSE (Max(0, ts - now) + TicksPerSec - 1) \div TicksPerSec

RetryAfter(ts) ==
    IF ts = NoTs THEN FallbackWait ELSE Max(0, ts - now) \div TicksPerSec

StyleDenyCountingAttempt(p) ==
    /\ req[p].pc = "deny"
    /\ generation_logs' = log_generation_db(req[p].uid, NoGuest)
    /\ Reply(p, [NoResp EXCEPT !.status = 429, !.kind = "user", !.uid = req[p].uid,
                               !.used_last_24h = req[p].used24,
                               !.daily_limit = DAILY_FREE_LIMIT,
                               !.retry_after_seconds = RetryAfter(req[p].ts),
                               !.now1 = req[p].now1, !.ts = req[p].ts,
                               !.now2 = req[p].now2, !.now3 = now])
    /\ UNCHANGED <<now, AI_PROVIDER, users, email_tokens, guests, bonus_granted>>

StyleDeny(p) ==
    /\ req[p].pc = "deny"
    /\ Reply(p, [NoResp EXCEPT !.status = 429, !.kind = "user", !.uid = req[p].uid,
                               !.used_last_24h = req[p].used24,
                               !.daily_limit = DAILY_FREE_LIMIT,
                               !.retry_after_seconds = RetryAfter(req[p].ts),
                               !.now1 = req[p].now1, !.ts = req[p].ts,
                               !.now2 = req[p].now2, !.now3 = now])
    /\ UNCHANGED <<now, AI_PROVIDER, users, email_tokens, guests,
                   generation_logs, bonus_granted>>

\* No session: g = get_or_create_guest(...); cookie is the s2s_guest cookie sent,
\* NoGuest when there is none.
StyleGuestResolve(p, cookie, conc) ==
    /\ Quiet(conc)
    /\ req[p].pc = "idle"
    /\ \E gid \in (IF cookie = NoGuest THEN FreshGuestIds ELSE {cookie}) :
          /\ guests' = get_or_create_guest(gid)
          /\ req' = [req EXCEPT ![p] = [IdleReq EXCEPT !.pc = "guest_read",
                                                       !.kind = "guest", !.gid = gid]]
    /\ Silent
    /\ UNCHANGED <<now, AI_PROVIDER, users, email_tokens, generation_logs,
                   bonus_granted>>

\* gg = db.get(Guest, g.id); if gg.credits <= 0: 402
GuestBlockedBelowZero(credits) == credits < 0
GuestBlocked(credits) == credits <= 0

StyleGuestRead(p) ==
    /\ req[p].pc = "guest_read"
    /\ ~GuestBlocked(guests[req[p].gid]) => LogRoom
    /\ IF GuestBlocked(guests[req[p].gid])
       THEN Reply(p, [NoResp EXCEPT !.status = 402, !.kind = "guest",
                                    !.gid = req[p].gid, !.cta = "register"])
       ELSE /\ req' = [req EXCEPT ![p].pc = "guest_debit", ![p].read = guests[req[p].gid]]
            /\ Silent
    /\ UNCHANGED <<now, AI_PROVIDER, users, email_tokens, guests,
                   generation_logs, bonus_granted>>

\* gg.credits -= 1; db.commit()
DebitedGuestNot(read) == read
DebitedGuest(read) == read - 1

StyleGuestDebit(p) ==
    /\ req[p].pc = "guest_debit"
    /\ guests' = [guests EXCEPT ![req[p].gid] = DebitedGuest(req[p].read)]
    /\ req' = [req EXCEPT ![p].pc = "generate", ![p].bucket = "guest"]
    /\ Silent
    /\ UNCHANGED <<now, AI_PROVIDER, users, email_tokens, generation_logs,
                   bonus_granted>>

\* GENERATION and the logging after it.  "mock" and "stability" build a payload
\* (stability falls back to the input image when the provider call raises); any
\* other AI_PROVIDER returns 400 at once.  log_generation_db runs inside
\* try/except: a failed insert is dropped and the payload is returned all the same.
PredictionIds ==
    IF AI_PROVIDER = "mock" THEN {"mock"}
    ELSE IF AI_PROVIDER = "stability" THEN {"stability", "error_fallback"}
    ELSE {}

Payload(p, pid, logged) ==
    [NoResp EXCEPT !.status = 200, !.kind = req[p].kind, !.uid = req[p].uid,
                   !.gid = req[p].gid, !.bucket = req[p].bucket,
                   !.predictionId = pid, !.logged = logged]

StyleUnknownProvider(p) ==
    /\ req[p].pc = "generate"
    /\ PredictionIds = {}
    /\ Reply(p, [NoResp EXCEPT !.status = 400, !.kind = req[p].kind, !.uid = req[p].uid,
                               !.gid = req[p].gid, !.bucket = req[p].bucket])
    /\ UNCHANGED <<now, AI_PROVIDER, users, email_tokens, guests,
                   generation_logs, bonus_granted>>

StyleLogSkippingPrepaid(p) ==
    /\ req[p].pc = "generate"
    /\ \E pid \in PredictionIds :
          /\ generation_logs' = IF req[p].bucket = "prepaid" THEN generation_logs
                                ELSE log_generation_db(req[p].uid, req[p].gid)
          /\ Reply(p, Payload(p, pid, 1))
    /\ UNCHANGED <<now, AI_PROVIDER, users, email_tokens, guests, bonus_granted>>

StyleLog(p) ==
    /\ req[p].pc = "generate"
    /\ \E pid \in PredictionIds :
          /\ generation_logs' = log_generation_db(req[p].uid, req[p].gid)
          /\ Reply(p, Payload(p, pid, 1))
    /\ UNCHANGED <<now, AI_PROVIDER, users, email_tokens, guests, bonus_granted>>

\* The commit of the balance update raises: nothing is written, the exception
\* leaves the handler and the caller gets 500.
StyleDebitFails(p) ==
    /\ req[p].pc \in {"debit_user", "guest_debit"}
    /\ Reply(p, [NoResp EXCEPT !.status = 500, !.kind = req[p].kind,
                               !.uid = req[p].uid, !.gid = req[p].gid])
    /\ UNCHANGED <<now, AI_PROVIDER, users, email_tokens, guests,
                   generation_logs, bonus_granted>>

\* The insert raises (the database is locked, the disk is full).
StyleLogFails(p) ==
    /\ req[p].pc = "generate"
    /\ \E pid \in PredictionIds : Reply(p, Payload(p, pid, 0))
    /\ UNCHANGED <<now, AI_PROVIDER, users, email_tokens, guests,
                   generation_logs, bonus_granted>>

\* ---- GET /credits

\* With a session: the user's row, count_last_24h and next_available_ts (the
\* reply's next_available_ts is the field ts here).
CreditsUser(u, conc) ==
    /\ Quiet(conc)
    /\ u \in UserIds
    /\ resp' = [NoResp EXCEPT !.status = 200, !.kind = "credits_user", !.uid = u,
                              !.verified = users[u].is_verified,
                              !.free_credits = users[u].free_credits,
                              !.daily_limit = DAILY_FREE_LIMIT,
                              !.used_last_24h = count_last_24h(u, NoGuest),
                              !.ts = next_available_ts(u),
                              !.now3 = now,
                              !.after_denial = (resp.status = 429 /\ resp.uid = u)]
    /\ UNCHANGED <<now, AI_PROVIDER, users, email_tokens, guests,
                   generation_logs, req, bonus_granted>>

\* Without a session: g = get_or_create_guest(request, response).
CreditsGuest(cookie, conc) ==
    /\ Quiet(conc)
    /\ \E gid \in (IF cookie = NoGuest THEN FreshGuestIds ELSE {cookie}) :
          /\ guests' = get_or_create_guest(gid)
          /\ resp' = [NoResp EXCEPT !.status = 200, !.kind = "credits_guest",
                                    !.gid = gid,
                                    !.guest_credits = get_or_create_guest(gid)[gid],
                                    !.used_last_24h = count_last_24h(NoUser, gid),
                                    !.now3 = now]
    /\ UNCHANGED <<now, AI_PROVIDER, users, email_tokens, generation_logs,
                   req, bonus_granted>>

\* ---- specifications

Step(ps, conc, steps, values) ==
    \/ Tick(steps, values)
    \/ \E e \in Emails : register(e, conc)
    \/ \E i \in 1..MaxTokens : verify_email(i, conc)
    \/ \E e \in Emails : request_otp(e, conc)
    \/ \E e \in Emails : verify_otp(e, conc)
    \/ \E u \in UserIds : resend_verify(u, conc)
    \/ \E e \in Emails, v \in BOOLEAN : google_callback(e, v, conc)
    \/ \E e \in Emails : google_idtoken_login(e, conc)
    \/ \E p \in ps, u \in UserIds : StyleUserRead(p, u, conc)
    \/ \E p \in ps : StyleUserDebit(p)
    \/ \E p \in ps : StyleCount(p)
    \/ \E p \in ps : StyleNextAvail(p)
    \/ \E p \in ps : StyleDeny(p)
    \/ \E p \in ps, c \in GuestIds \cup {NoGuest} : StyleGuestResolve(p, c, conc)
    \/ \E p \in ps : StyleGuestRead(p)
    \/ \E p \in ps : StyleGuestDebit(p)
    \/ \E p \in ps : StyleUnknownProvider(p)
    \/ \E p \in ps : StyleLog(p)

Next == Step(Procs, TRUE, ConcClockSteps, ConcClockValues)
Spec == Init /\ [][Next]_vars

SeqNext == Step(SeqProcs, FALSE, ClockSteps, ClockValues)
SeqSpec == Init /\ [][SeqNext]_vars

\* One request at a time, with the status query GET /credits.
StatusNext ==
    \/ SeqNext
    \/ \E u \in UserIds : CreditsUser(u, FALSE)
    \/ \E c \in GuestIds \cup {NoGuest} : CreditsGuest(c, FALSE)
StatusSpec == Init /\ [][StatusNext]_vars

\* One request at a time, with the writes of /style-image allowed to fail.
FaultNext ==
    \/ SeqNext
    \/ \E p \in SeqProcs : StyleDebitFails(p)
    \/ \E p \in SeqProcs : StyleLogFails(p)
FaultSpec == Init /\ [][FaultNext]_vars

\* ======================================================================
\* Properties
\* ======================================================================

\* C1: the verification bonus added to one user row, over every creating and
\* verifying route, never exceeds one grant of 2.
C1_BonusAtMostOnce ==
    \A u \in UserIds : bonus_granted[u] <= VerifyBonus

\* C2: every guest's credits and every user's free_credits is >= 0, with the
\* reads and write-backs of concurrent requests interleaved.
C2_NeverNegative ==
    /\ \A g \in DOMAIN guests : guests[g] >= 0
    /\ \A u \in UserIds : users[u].free_credits >= 0

\* Two requests of one guest both read credits = 1 and both wrote back 0.
C2_Witness ==
    /\ req[1].pc = "generate" /\ req[2].pc = "generate"
    /\ req[1].bucket = "guest" /\ req[2].bucket = "guest"
    /\ req[1].gid = req[2].gid
    /\ req[1].read = 1 /\ req[2].read = 1
    /\ guests[req[1].gid] = 0

GuestEvents(g) == {i \in 1..Len(generation_logs) : generation_logs[i].guest_id = g}

\* C3: one request at a time, a guest row starts with 2 credits; a request that
\* finds credits > 0 is let through and lowers them by exactly 1, one that finds 0
\* is answered 402 with cta "register"; nothing raises a guest's credits, so the
\* first 2 requests pass, every later one is refused, and at most 2 usage events
\* are ever written for the guest.
C3_GuestTwoTries ==
    /\ [](\A g \in DOMAIN guests :
            /\ guests[g] \in 0..GuestInitialCredits
            /\ Cardinality(GuestEvents(g)) <= GuestInitialCredits - guests[g])
    /\ [](\A p \in Procs :
            /\ req[p].pc = "guest_debit" => req[p].read = guests[req[p].gid] /\ req[p].read > 0
            /\ req[p].bucket = "guest" => guests[req[p].gid] = req[p].read - 1)
    /\ [](resp.status = 402 => guests[resp.gid] = 0 /\ resp.cta = "register")
    /\ [][/\ \A g \in DOMAIN guests' :
               IF g \in DOMAIN guests
               THEN guests'[g] = guests[g] \/
                    (/\ guests'[g] = guests[g] - 1
                     /\ \E p \in Procs : /\ req[p].pc = "guest_debit" /\ req[p].gid = g
                                         /\ req'[p].bucket = "guest")
               ELSE guests'[g] = GuestInitialCredits
          /\ \A p \in Procs :
               req[p].pc = "guest_read" /\ req'[p].pc # "guest_read" =>
                  IF guests[req[p].gid] > 0
                  THEN req'[p].pc = "guest_debit"
                  ELSE resp'.status = 402 /\ req'[p].pc = "idle"]_vars

\* The third request of a guest: two usage events written, credits 0, refused.
C3_Witness ==
    /\ resp.status = 402
    /\ Cardinality(GuestEvents(resp.gid)) = GuestInitialCredits

\* The usage events of user u, and those no older than 24 hours at time t.
UserEvents(u) == {i \in 1..Len(generation_logs) : generation_logs[i].user_id = u}
InWindowAt(u, t) == {i \in UserEvents(u) : generation_logs[i].created_at + Hours24 >= t}

\* C4 as stated: every daily-limit denial carries used_last_24h = DAILY_FREE_LIMIT
\* and daily_limit = DAILY_FREE_LIMIT.
C4_DeniedWithUsedEqualLimit ==
    resp.status = 429 =>
        /\ resp.used_last_24h = DAILY_FREE_LIMIT
        /\ resp.daily_limit = DAILY_FREE_LIMIT

\* C4, amended: the count query of a request on the daily-quota path reads the
\* number of the user's usage events in the trailing 24 hours; with
\* DAILY_FREE_LIMIT or more of them the request is answered 429 with
\* daily_limit = DAILY_FREE_LIMIT and used_last_24h = that number, which is
\* >= DAILY_FREE_LIMIT; with fewer it is let through.
C4_DailyLimitDenial ==
    [][\A p \in Procs :
         /\ (req[p].pc = "count" /\ req'[p] # req[p]) =>
               LET n == Cardinality(InWindowAt(req[p].uid, now))
               IN  /\ req'[p].used24 = n
                   /\ n >= DAILY_FREE_LIMIT => req'[p].pc = "next_avail"
                   /\ n < DAILY_FREE_LIMIT => req'[p].pc = "generate"
         /\ (req[p].pc = "next_avail" /\ req'[p] # req[p]) =>
               /\ req'[p].pc = "deny"
               /\ req'[p].used24 = req[p].used24
         /\ (req[p].pc = "deny" /\ req'[p] # req[p]) =>
               /\ resp'.status = 429
               /\ resp'.daily_limit = DAILY_FREE_LIMIT
               /\ resp'.used_last_24h = req[p].used24
               /\ resp'.used_last_24h >= DAILY_FREE_LIMIT
      ]_vars

\* An unverified user's third request, after two recorded ones: 429 with used = 2.
C4_Witness ==
    /\ resp.status = 429
    /\ ~users[resp.uid].is_verified
    /\ resp.used_last_24h = DAILY_FREE_LIMIT
    /\ Cardinality(UserEvents(resp.uid)) = DAILY_FREE_LIMIT

KthLatest(u, k) ==
    LET i == CHOOSE j \in UserEvents(u) :
                 Cardinality({m \in UserEvents(u) : m > j}) = k - 1
    IN  generation_logs[i].created_at

\* C6 as stated (whole seconds): every daily-limit denial carries a retry_after
\* that is > 0, at most 24 hours, and the time left until t_k + 24h.
C6_RetryAfterPositive ==
    resp.status = 429 =>
        LET left == KthLatest(resp.uid, DAILY_FREE_LIMIT) + Hours24 - resp.now3
            w == resp.retry_after_seconds
        IN  /\ w > 0
            /\ w * TicksPerSec <= Hours24
            /\ w * TicksPerSec <= left /\ left < (w + 1) * TicksPerSec

\* C6, amended: retry_after is >= 0 and at most 24 hours.  When t_k is still
\* inside the window of the next-available query it is the time left until
\* t_k + 24h at the moment of the reply, cut to whole seconds, and 0 once that
\* moment has passed; when t_k has left the window between the count and the
\* next-available query it is the fixed 3600.
C6_RetryAfter ==
    resp.status = 429 =>
        LET tk == KthLatest(resp.uid, DAILY_FREE_LIMIT)
            left == tk + Hours24 - resp.now3
            w == resp.retry_after_seconds
        IN  /\ w >= 0
            /\ w * TicksPerSec <= Hours24
            /\ IF tk + Hours24 < resp.now2 THEN w = FallbackWait
               ELSE IF left < 0 THEN w = 0
               ELSE w * TicksPerSec <= left /\ left < (w + 1) * TicksPerSec

\* A denial whose next-available query found the window already empty.
C6_Witness ==
    /\ resp.status = 429
    /\ resp.ts = NoTs
    /\ resp.retry_after_seconds = FallbackWait

\* C7: every request that passed the entitlement check (a bucket authorised it,
\* and for the credit buckets the debit was written) has appended its usage
\* event when it completes, whatever the provider configuration.
C7_AllowedIsLogged ==
    (resp.status \in {200, 400} /\ resp.bucket # "none") => resp.logged = 1

\* C8: for a user who starts unverified with 0 credits, as register creates it,
\* the step that verifies it adds exactly 2 and sets verify_bonus_claimed, and
\* from then on no step adds any bonus or raises free_credits: 2 in total.
C8_VerifyAddsTwoOnce ==
    [][\A u \in UserIds :
         LET a == users[u]
             b == users'[u]
         IN  /\ ~a.is_verified =>
                  /\ ~a.verify_bonus_claimed
                  /\ a.free_credits = 0
                  /\ bonus_granted[u] = 0
                  /\ b.is_verified =>
                        /\ b.verify_bonus_claimed
                        /\ b.free_credits = VerifyBonus
                        /\ bonus_granted'[u] = VerifyBonus
                  /\ ~b.is_verified => (b = a /\ bonus_granted'[u] = 0)
             /\ (a.is_verified /\ a.verify_bonus_claimed) =>
                  /\ b.is_verified
                  /\ b.verify_bonus_claimed
                  /\ bonus_granted'[u] = bonus_granted[u]
                  /\ b.free_credits <= a.free_credits
      ]_vars

\* /auth/verify-otp has just verified a user again: the user got 2 in all and one
\* was spent before this verification, which added nothing.
C8_Witness ==
    /\ resp.kind = "verify_otp"
    /\ resp.uid \in UserIds
    /\ users[resp.uid].is_verified
    /\ users[resp.uid].verify_bonus_claimed
    /\ bonus_granted[resp.uid] = VerifyBonus
    /\ users[resp.uid].free_credits = VerifyBonus - 1

\* C9: a user whose trailing 24 hours hold DAILY_FREE_LIMIT or more usage events
\* has free_credits = 2 right after being verified, and a request of a verified
\* user with credits left is then let through the prepaid bucket, one credit
\* taken, whatever the count of the window.
C9_PrepaidAfterVerify ==
    [][\A u \in UserIds :
         count_last_24h(u, NoGuest) >= DAILY_FREE_LIMIT =>
           /\ (~users[u].is_verified /\ users'[u].is_verified) =>
                  users'[u].free_credits = VerifyBonus
           /\ \A p \in SeqProcs :
                /\ ( /\ req[p].pc = "idle"
                     /\ req'[p].pc # "idle"
                     /\ req'[p].uid = u
                     /\ users[u].is_verified
                     /\ users[u].free_credits > 0 ) => req'[p].pc = "debit_user"
                /\ (req[p].pc = "debit_user" /\ req[p].uid = u /\ req'[p] # req[p]) =>
                     /\ req'[p].pc = "generate"
                     /\ req'[p].bucket = "prepaid"
                     /\ users'[u].free_credits = users[u].free_credits - 1
                     /\ resp'.status # 429
      ]_vars

\* The user used the daily quota twice while unverified, was verified, and its
\* next request has just been let through on a prepaid credit.
C9_Witness ==
    \E u \in UserIds :
        /\ req[1].pc = "generate"
        /\ req[1].uid = u
        /\ req[1].bucket = "prepaid"
        /\ bonus_granted[u] = VerifyBonus
        /\ users[u].free_credits = VerifyBonus - 1
        /\ count_last_24h(u, NoGuest) >= DAILY_FREE_LIMIT

\* C10: one request at a time, a request of a registered user takes one bucket.
\* On the prepaid branch
\* the user is verified with credits, exactly one credit is taken and the window
\* count is never read; the window decides only for a user who is unverified or
\* has no credit, and then free_credits stays as it was read.
C10_OneBucketPrepaidFirst ==
    /\ \A p \in SeqProcs :
         LET r == req[p]
         IN  r.kind = "user" =>
               /\ r.pc = "debit_user" =>
                    /\ users[r.uid].is_verified
                    /\ r.read > 0
                    /\ users[r.uid].free_credits = r.read
               /\ r.bucket = "prepaid" =>
                    /\ r.pc = "generate"
                    /\ users[r.uid].is_verified
                    /\ r.read > 0
                    /\ users[r.uid].free_credits = r.read - 1
                    /\ r.ts = NoTs
               /\ (r.pc \in {"count", "next_avail", "deny"} \/ r.bucket = "daily_quota") =>
                    /\ ~users[r.uid].is_verified \/ r.read = 0
                    /\ users[r.uid].free_credits = r.read
               /\ r.pc = "generate" => r.bucket \in {"prepaid", "daily_quota"}
    /\ (resp.status = 429) =>
          \/ ~users[resp.uid].is_verified
          \/ users[resp.uid].free_credits = 0
    /\ (resp.status = 200 /\ resp.kind = "user") =>
          resp.bucket \in {"prepaid", "daily_quota"}

\* A verified user who spent both prepaid credits is let through by the window.
C10_Witness ==
    \E u \in UserIds :
        /\ req[1].pc = "generate"
        /\ req[1].uid = u
        /\ req[1].bucket = "daily_quota"
        /\ users[u].is_verified
        /\ bonus_granted[u] = VerifyBonus
        /\ users[u].free_credits = 0

\* C11: a user who is not verified has free_credits = 0 and verify_bonus_claimed
\* false, and every request of such a user is on the rolling-window path: it is
\* never on the prepaid branch and never holds the prepaid bucket.
C11_UnverifiedHasNoCredits ==
    /\ \A u \in UserIds :
          ~users[u].is_verified =>
              /\ users[u].free_credits = 0
              /\ ~users[u].verify_bonus_claimed
    /\ \A p \in Procs :
          (req[p].kind = "user" /\ ~users[req[p].uid].is_verified) =>
              /\ req[p].pc \in {"count", "next_avail", "deny", "generate"}
              /\ req[p].bucket # "prepaid"
              /\ req[p].read = 0

\* A request of an unverified user has been let through by the window.
C11_Witness ==
    \E p \in Procs :
        /\ req[p].kind = "user"
        /\ ~users[req[p].uid].is_verified
        /\ req[p].pc = "generate"
        /\ req[p].bucket = "daily_quota"

\* C12 as stated: with no new usage event, a request issued once the
\* retry_after_seconds of a daily-limit denial have elapsed finds fewer than
\* DAILY_FREE_LIMIT usage events of the user in its trailing 24 hours, so it is
\* allowed.
C12_AllowedAfterRetry ==
    resp.status = 429 =>
        Cardinality(InWindowAt(resp.uid,
            now + resp.retry_after_seconds * TicksPerSec)) < DAILY_FREE_LIMIT

\* C12, amended: after a daily-limit denial that reported t_k + 24h, and with no
\* new usage event, the count of a request is still DAILY_FREE_LIMIT or more at
\* every instant up to and including t_k + 24h, so a user without prepaid credit
\* stays denied, and is below DAILY_FREE_LIMIT at every later instant; the
\* retry_after_seconds returned end at or less than one second before t_k + 24h.
C12_DeniedUntilKthAgesOut ==
    (resp.status = 429 /\ resp.ts # NoTs) =>
        /\ Cardinality(InWindowAt(resp.uid, resp.ts)) >= DAILY_FREE_LIMIT
        /\ Cardinality(InWindowAt(resp.uid, resp.ts + 1)) < DAILY_FREE_LIMIT
        /\ (resp.ts >= now =>
               /\ now + resp.retry_after_seconds * TicksPerSec <= resp.ts
               /\ resp.ts < now + (resp.retry_after_seconds + 1) * TicksPerSec)

\* A denial returned half a second after the user's two usage events: the
\* retry_after_seconds end half a second before the older event ages out.
C12_Witness ==
    /\ resp.status = 429
    /\ resp.ts # NoTs
    /\ now + resp.retry_after_seconds * TicksPerSec < resp.ts
    /\ Cardinality(InWindowAt(resp.uid,
           now + resp.retry_after_seconds * TicksPerSec)) >= DAILY_FREE_LIMIT

\* C13: GET /credits changes no user row, no guest row, not the set of guest
\* rows and not the usage log.
C13_CreditsDoesNotMutate ==
    [][resp'.kind \in {"credits_user", "credits_guest"} =>
          /\ users' = users
          /\ guests' = guests
          /\ generation_logs' = generation_logs
      ]_vars

\* C14: GET /credits of a user returns next_available_ts = null whenever a request
\* of the user at the same instant would be allowed: the user is verified with
\* prepaid credits, or has fewer than DAILY_FREE_LIMIT usage events in the
\* trailing 24 hours.
C14_NullWhenNotBlocked ==
    ( /\ resp.kind = "credits_user"
      /\ \/ resp.verified /\ resp.free_credits > 0
         \/ resp.used_last_24h < DAILY_FREE_LIMIT ) => resp.ts = NoTs

\* C15 as stated: GET /credits right after a daily-limit denial of the user, the
\* clock unchanged (here: since the denial's first query), reports the denial's
\* used_last_24h and a next_available_ts with next_available_ts - now equal to
\* the denial's retry_after_seconds.
C15_CreditsMatchesDenial ==
    [][( /\ resp.status = 429
         /\ resp.now1 = now
         /\ resp'.kind = "credits_user"
         /\ resp'.uid = resp.uid ) =>
            /\ resp'.used_last_24h = resp.used_last_24h
            /\ resp'.ts # NoTs
            /\ resp'.ts - now = resp.retry_after_seconds * TicksPerSec
      ]_vars

\* C15, amended: when the clock has not moved since the denial's count query,
\* GET /credits reports the denial's used_last_24h and the next_available_ts the
\* denial computed, and the denial's retry_after_seconds is next_available_ts - now
\* truncated to whole seconds.
C15_CreditsMatchesDenialTruncated ==
    [][( /\ resp.status = 429
         /\ resp.now1 = now
         /\ resp'.kind = "credits_user"
         /\ resp'.uid = resp.uid ) =>
            /\ resp'.used_last_24h = resp.used_last_24h
            /\ resp'.ts # NoTs
            /\ resp'.ts = resp.ts
            /\ resp'.ts >= now
            /\ (resp'.ts - now) \div TicksPerSec = resp.retry_after_seconds
      ]_vars

\* GET /credits right after a denial, half a second short of whole seconds.
C15_Witness ==
    /\ resp.kind = "credits_user"
    /\ resp.after_denial
    /\ resp.used_last_24h >= DAILY_FREE_LIMIT
    /\ resp.ts # NoTs
    /\ (resp.ts - now) % TicksPerSec # 0

\* C16: a step of a guest's request changes no user row and appends no usage
\* event with a user_id; every other step (a user's request, a registration, a
\* verification, the clock) changes no guest's credits; and the step that
\* verifies an account leaves it with free_credits = 2 whatever the guests hold.
C16_NoLeakBetweenIdentities ==
    [][ /\ IF \E p \in Procs : /\ req'[p] # req[p]
                               /\ "guest" \in {req[p].kind, req'[p].kind}
           THEN /\ users' = users
                /\ \A i \in (Len(generation_logs) + 1)..Len(generation_logs') :
                      /\ generation_logs'[i].user_id = NoUser
                      /\ generation_logs'[i].guest_id \in DOMAIN guests
           ELSE guests' = guests
        /\ \A u \in UserIds :
              (~users[u].is_verified /\ users'[u].is_verified) =>
                  /\ users'[u].free_credits = VerifyBonus
                  /\ guests' = guests
      ]_vars

\* A visitor spent both guest credits; the account registered afterwards has just
\* been verified and holds exactly 2.
C16_Witness ==
    /\ resp.kind \in {"verify_email", "verify_otp"}
    /\ users[resp.uid].free_credits = VerifyBonus
    /\ bonus_granted[resp.uid] = VerifyBonus
    /\ \E g \in DOMAIN guests :
          /\ guests[g] = 0
          /\ Cardinality(GuestEvents(g)) = GuestInitialCredits

\* C17: a /style-image request returns its payload only when its writes were
\* made: a request whose usage-event insert failed does not answer 200.
C17_FailedWriteReported ==
    (resp.status = 200 /\ resp.predictionId # "") => resp.logged = 1

\* C18: every usage event has exactly one of user_id and guest_id set, naming an
\* existing user or guest row, and an event is appended only by a request that
\* was let through, with the identity of that request.
C18_OneIdentityPerEvent ==
    /\ [](\A i \in 1..Len(generation_logs) :
            LET row == generation_logs[i]
            IN  /\ (row.user_id # NoUser) # (row.guest_id # NoGuest)
                /\ row.user_id # NoUser => row.user_id \in UserIds
                /\ row.guest_id # NoGuest => row.guest_id \in DOMAIN guests)
    /\ [][generation_logs' # generation_logs =>
            /\ Len(generation_logs') = Len(generation_logs) + 1
            /\ SubSeq(generation_logs', 1, Len(generation_logs)) = generation_logs
            /\ \E p \in Procs :
                  LET row == generation_logs'[Len(generation_logs')]
                  IN  /\ req[p].pc = "generate"
                      /\ req'[p].pc = "idle"
                      /\ req[p].bucket \in {"prepaid", "daily_quota", "guest"}
                      /\ req[p].kind = "user" =>
                            (row.user_id = req[p].uid /\ row.guest_id = NoGuest)
                      /\ req[p].kind = "guest" =>
                            (row.guest_id = req[p].gid /\ row.user_id = NoUser)
       ]_vars

\* The log holds an event of a user and an event of a guest.
C18_Witness ==
    /\ \E i \in 1..Len(generation_logs) : generation_logs[i].user_id # NoUser
    /\ \E i \in 1..Len(generation_logs) : generation_logs[i].guest_id # NoGuest

\* C19: the balance is read in one step and written in a later one.  A request
\* that read a positive balance is let through whatever the balance has become,
\* and writes the balance it read minus one: requests of one identity that read
\* the same balance are all let through and lower it by one only.
C19_CheckThenDecrement ==
    [][\A p \in Procs :
         /\ (req[p].pc = "guest_debit" /\ req'[p] # req[p]) =>
               /\ req[p].read >= 1
               /\ req'[p].pc = "generate"
               /\ req'[p].bucket = "guest"
               /\ guests'[req[p].gid] = req[p].read - 1
         /\ (req[p].pc = "debit_user" /\ req'[p] # req[p]) =>
               /\ req[p].read >= 1
               /\ req'[p].pc = "generate"
               /\ req'[p].bucket = "prepaid"
               /\ users'[req[p].uid].free_credits = req[p].read - 1
      ]_vars

\* Two requests of one guest both read the balance 1 and were both let through:
\* with the event already logged that is three generations on two credits.
C19_Witness ==
    \E g \in DOMAIN guests :
        /\ \A p \in Procs :
              /\ req[p].pc = "generate"
              /\ req[p].bucket = "guest"
              /\ req[p].gid = g
              /\ req[p].read = 1
        /\ guests[g] = 0
        /\ Cardinality(GuestEvents(g)) + Cardinality(Procs) = GuestInitialCredits + 1

\* C20: the window check counts only the usage events already written, and an
\* event is written when the request completes.  A request on the daily-quota
\* path is let through whenever fewer than DAILY_FREE_LIMIT events of the user
\* lie in the trailing 24 hours, however many requests of the user have already
\* been let through and are not logged yet; a user who never held prepaid credits
\* therefore gets at most one event per request in flight beyond the
\* DAILY_FREE_LIMIT - 1 events that let the requests pass.
C20_SlotTakenAtLogging ==
    /\ [][\A p \in Procs :
            /\ ( /\ req[p].pc = "count"
                 /\ req'[p] # req[p]
                 /\ Cardinality(InWindowAt(req[p].uid, now)) < DAILY_FREE_LIMIT ) =>
                   /\ req'[p].pc = "generate"
                   /\ req'[p].bucket = "daily_quota"
                   /\ generation_logs' = generation_logs
            /\ (req[p].bucket = "daily_quota" /\ req'[p] # req[p]) =>
                   /\ req'[p].pc = "idle"
                   /\ resp'.status = 200 =>
                         /\ Len(generation_logs') = Len(generation_logs) + 1
                         /\ generation_logs'[Len(generation_logs')].user_id = req[p].uid
         ]_vars
    /\ [](\A u \in UserIds :
            bonus_granted[u] = 0 =>
               \A k \in UserEvents(u) :
                  Cardinality({i \in UserEvents(u) :
                      /\ generation_logs[i].created_at <= generation_logs[k].created_at
                      /\ generation_logs[i].created_at + Hours24
                            > generation_logs[k].created_at})
                    <= DAILY_FREE_LIMIT - 1 + Cardinality(Procs))

\* Two requests of a user without prepaid credits passed the window check on the
\* one event logged before them: three events of the user within 24 hours.
C20_Witness ==
    \E u \in UserIds :
        /\ bonus_granted[u] = 0
        /\ Cardinality(UserEvents(u)) > DAILY_FREE_LIMIT
        /\ \A i \in UserEvents(u), j \in UserEvents(u) :
              generation_logs[i].created_at + Hours24 > generation_logs[j].created_at

\* C21: one request at a time, a generation paid with a prepaid credit appends a
\* usage event of the user like any other; a verified user with free_credits = 0
\* is sent to the window check, and with DAILY_FREE_LIMIT or more of the user's
\* events, prepaid ones included, in the trailing 24 hours the request is denied.
C21_PrepaidEventsCount ==
    [][\A p \in SeqProcs :
         /\ (req[p].bucket = "prepaid" /\ req'[p] # req[p] /\ resp'.status = 200) =>
               generation_logs' = Append(generation_logs,
                   [user_id |-> req[p].uid, guest_id |-> NoGuest, created_at |-> now])
         /\ ( /\ req[p].pc = "idle"
              /\ req'[p].kind = "user"
              /\ users[req'[p].uid].is_verified
              /\ users[req'[p].uid].free_credits = 0 ) => req'[p].pc = "count"
         /\ ( /\ req[p].pc = "count"
              /\ req'[p] # req[p]
              /\ users[req[p].uid].is_verified
              /\ users[req[p].uid].free_credits = 0
              /\ Cardinality({i \in UserEvents(req[p].uid) :
                     generation_logs[i].created_at + Hours24 >= now})
                   >= DAILY_FREE_LIMIT ) =>
               /\ req'[p].pc = "next_avail"
               /\ req'[p].used24 >= DAILY_FREE_LIMIT
      ]_vars

\* A verified user spent both prepaid credits, the only two events of the user,
\* and the next request was denied by the daily limit.
C21_Witness ==
    /\ resp.status = 429
    /\ users[resp.uid].is_verified
    /\ users[resp.uid].free_credits = 0
    /\ bonus_granted[resp.uid] = VerifyBonus
    /\ Cardinality(UserEvents(resp.uid)) = VerifyBonus
    /\ resp.used_last_24h = VerifyBonus
    /\ resp.now3 = 0

\* C22: a request is denied only from the window check or the guest's credit
\* check, never after a debit; the steps that lead there and the denial itself
\* change no user row (free_credits, is_verified, verify_bonus_claimed), no
\* credits of a guest row and append no usage event.
C22_DenialChangesNothing ==
    [][\A p \in Procs :
         req'[p] # req[p] =>
           /\ req'[p].pc = "count" => req[p].pc = "idle"
           /\ req'[p].pc = "next_avail" => req[p].pc = "count"
           /\ req'[p].pc = "deny" => req[p].pc = "next_avail"
           /\ req'[p].pc = "guest_read" => req[p].pc = "idle"
           /\ req[p].pc \in {"idle", "count", "next_avail", "deny", "guest_read"} =>
                 /\ users' = users
                 /\ generation_logs' = generation_logs
                 /\ \A g \in DOMAIN guests :
                       g \in DOMAIN guests' /\ guests'[g] = guests[g]
           /\ resp'.status \in {429, 402} =>
                 /\ req[p].pc = (IF resp'.status = 429 THEN "deny" ELSE "guest_read")
                 /\ req[p].bucket = "none"
                 /\ users' = users
                 /\ guests' = guests
                 /\ generation_logs' = generation_logs
      ]_vars

\* A user's request has just been denied while the guest of the model still
\* holds credits, and the log holds the events that caused the denial only.
C22_Witness ==
    /\ resp.status = 429
    /\ Len(generation_logs) = resp.used_last_24h
    /\ \E g \in DOMAIN guests : guests[g] = GuestInitialCredits

====
